---- MODULE Spec2Model ----
(***************************************************************************)
(* Model of data_playbook_app_v1.py: the session-state persistence         *)
(* (save_app_state_json / load_app_state_json / init_session_state) and    *)
(* the data-quality scorer (run_mock_dama_checks / simulate_sql_analysis). *)
(*                                                                         *)
(* Percentages are integers in tenths of a percent (97.0 is 970).          *)
(***************************************************************************)
EXTENDS Integers, Sequences, FiniteSets, TLC

VARIABLES
    APP_TIMEZONE,    \* module constant set by the try/except at import
    df,              \* scorer input: the dataset
    config,          \* scorer input: the rule configuration
    checks,          \* what run_mock_dama_checks(df, config) returned
    sim,             \* what simulate_sql_analysis(df, config) returned
    spc,             \* position of the scorer harness
    pc,              \* position in the script run
    click,           \* the user input that triggered the script run
    arg,             \* its argument (an index into the choices offered)
    session_state,   \* st.session_state: the keys present and their values
    state_file,      \* the file STATE_FILE (playbook_state.json)
    ret,             \* the last call of save/load in the script run and its outcome
    warnings,        \* the st.warning / st.error lines of the last script run
    clock,           \* the wall clock, in seconds
    inputs,          \* the number of user inputs so far in the session
    logo_uploader,   \* whether the logo file uploader holds a file
    saved_state      \* history variable: the session state at the save that
                     \* wrote state_file (NoItems when no save did)

scorer_vars == <<df, config, checks, sim, spc>>

app_vars == <<pc, click, arg, session_state, state_file, ret, warnings, clock, inputs,
              logo_uploader, saved_state>>

vars == <<APP_TIMEZONE, df, config, checks, sim, spc,
          pc, click, arg, session_state, state_file, ret, warnings, clock, inputs,
          logo_uploader, saved_state>>

(***************************************************************************)
(* Bounds of the model.                                                    *)
(***************************************************************************)
MaxRows == 2

None == "<None>"

(***************************************************************************)
(* Cells of a dataset.  k is the kind of the value as pandas sees it:      *)
(* "nan" a missing value, "num" a number v, "str" a text that is neither a *)
(* number nor a date (v names the text), "date" a date text whose age at   *)
(* the time of the analysis is v days.                                     *)
(***************************************************************************)
NaN == [k |-> "nan", v |-> 0]
Num(n) == [k |-> "num", v |-> n]
Str(i) == [k |-> "str", v |-> i]
Date(age) == [k |-> "date", v |-> age]

RECURSIVE SumSeq(_)
SumSeq(s) == IF s = <<>> THEN 0 ELSE Head(s) + SumSeq(Tail(s))

\* the number of positions of s whose element satisfies T
Count(s, T(_)) == Cardinality({i \in DOMAIN s : T(s[i])})

Range(s) == {s[i] : i \in DOMAIN s}

(***************************************************************************)
(* Python's round(x, 1) of the rational num/den, in tenths: the nearest    *)
(* tenth.  x is a binary float, so at an exact tie either neighbour can    *)
(* come out; both are kept.                                                *)
(***************************************************************************)
RoundTenths(num, den) ==
    LET q == num \div den
        r == num % den
    IN  IF 2 * r < den THEN {q}
        ELSE IF 2 * r > den THEN {q + 1}
        ELSE {q, q + 1}

(***************************************************************************)
(* A dataset (pandas DataFrame): column labels, rows of cells aligned with *)
(* the labels, and tz, the zone awareness pandas gives the dates parsed    *)
(* from its date texts ("naive" or "aware").  NoData is Python's None.     *)
(***************************************************************************)
NoData == [columns |-> <<>>, data |-> <<>>, tz |-> "None"]

\* df is None or df.empty
IsEmpty(d) == d = NoData \/ Len(d.columns) = 0 \/ Len(d.data) = 0

\* col in df.columns
HasCol(d, col) == \E i \in DOMAIN d.columns : d.columns[i] = col

\* df[col]
Column(d, col) ==
    LET i == CHOOSE j \in DOMAIN d.columns : d.columns[j] = col
    IN  [r \in DOMAIN d.data |-> d.data[r][i]]

\* Series.isnull() of one cell
isnull(c) == c.k = "nan"

\* pd.to_numeric(errors='coerce') of one cell: what is not a number is missing
to_numeric(c) == IF c.k = "num" THEN c ELSE NaN

\* pd.to_datetime(errors='coerce') of one cell: a date text is that date, a
\* number is nanoseconds after 1970-01-01 (a date, decades old), any other
\* text is missing
EpochAge == 20000
to_datetime(c) ==
    IF c.k = "date" THEN c
    ELSE IF c.k = "num" THEN Date(EpochAge)
    ELSE NaN

(***************************************************************************)
(* get_current_time(): zone-aware when APP_TIMEZONE is a zone name, naive  *)
(* otherwise.                                                              *)
(***************************************************************************)
get_current_time == IF APP_TIMEZONE # None THEN "aware" ELSE "naive"

(***************************************************************************)
(* run_mock_dama_checks.  A dimension result is [t, v]: t = "num" with the *)
(* score v in tenths, t = "na" the 'N/A (...)' text, t = "err" the         *)
(* 'Error (...)' text.                                                     *)
(***************************************************************************)
Dimensions == <<"Completeness", "Uniqueness", "Timeliness", "Validity", "Consistency">>

Score(x) == [t |-> "num", v |-> x]
NA == [t |-> "na", v |-> 0]
Error == [t |-> "err", v |-> 0]

calculate_percentage(numerator, denominator) ==
    IF denominator = 0 THEN 1000
    ELSE LET q == (1000 * numerator) \div denominator
             r == (1000 * numerator) % denominator
         IN  IF 2 * r < denominator THEN q
             ELSE IF 2 * r > denominator THEN q + 1
             ELSE IF q % 2 = 0 THEN q ELSE q + 1

num_rows(d) == Len(d.data)

\* Completeness over every configured column, the absent ones counted as
\* full columns
Completeness_AllConfigured(d, cfg) ==
    LET present_cols == SelectSeq(cfg.completeness_cols, LAMBDA col : HasCol(d, col))
        total_cells == Len(cfg.completeness_cols) * num_rows(d)
        nan_cells == SumSeq([i \in DOMAIN present_cols |->
                                Count(Column(d, present_cols[i]), isnull)])
    IN  IF present_cols # <<>>
        THEN [res |-> Score(calculate_percentage(total_cells - nan_cells, total_cells)),
              issue |-> nan_cells > 0]
        ELSE [res |-> NA, issue |-> FALSE]

\* 1. Completeness: result and whether an issue line is written
Completeness(d, cfg) ==
    LET present_cols == SelectSeq(cfg.completeness_cols, LAMBDA col : HasCol(d, col))
        total_cells == Len(present_cols) * num_rows(d)
        nan_cells == SumSeq([i \in DOMAIN present_cols |->
                                Count(Column(d, present_cols[i]), isnull)])
    IN  IF present_cols # <<>>
        THEN [res |-> Score(calculate_percentage(total_cells - nan_cells, total_cells)),
              issue |-> nan_cells > 0]
        ELSE [res |-> NA, issue |-> FALSE]

\* Uniqueness over all rows, the missing ones included in the count
Uniqueness_OverAllRows(d, cfg) ==
    LET unique_col == cfg.uniqueness_col
    IN  IF unique_col # None /\ HasCol(d, unique_col)
        THEN LET col == Column(d, unique_col)
                 num_non_na == Count(col, LAMBDA c : ~isnull(c))
                 unique_ids == Cardinality({col[i] : i \in {j \in DOMAIN col : ~isnull(col[j])}})
                 duplicates == num_non_na - unique_ids
             IN  [res |-> Score(IF num_non_na > 0
                                THEN calculate_percentage(unique_ids, num_rows(d))
                                ELSE 1000),
                  issue |-> duplicates > 0]
        ELSE [res |-> NA, issue |-> FALSE]

\* Uniqueness with the ratio upside down: non-null rows per distinct value
Uniqueness_Inverted(d, cfg) ==
    LET unique_col == cfg.uniqueness_col
    IN  IF unique_col # None /\ HasCol(d, unique_col)
        THEN LET col == Column(d, unique_col)
                 num_non_na == Count(col, LAMBDA c : ~isnull(c))
                 unique_ids == Cardinality({col[i] : i \in {j \in DOMAIN col : ~isnull(col[j])}})
                 duplicates == num_non_na - unique_ids
             IN  [res |-> Score(IF num_non_na > 0
                                THEN calculate_percentage(num_non_na, unique_ids)
                                ELSE 1000),
                  issue |-> duplicates > 0]
        ELSE [res |-> NA, issue |-> FALSE]

\* 2. Uniqueness
Uniqueness(d, cfg) ==
    LET unique_col == cfg.uniqueness_col
    IN  IF unique_col # None /\ HasCol(d, unique_col)
        THEN LET col == Column(d, unique_col)
                 num_non_na == Count(col, LAMBDA c : ~isnull(c))
                 unique_ids == Cardinality({col[i] : i \in {j \in DOMAIN col : ~isnull(col[j])}})
                 duplicates == num_non_na - unique_ids
             IN  [res |-> Score(IF num_non_na > 0
                                THEN calculate_percentage(unique_ids, num_non_na)
                                ELSE 1000),
                  issue |-> duplicates > 0]
        ELSE [res |-> NA, issue |-> FALSE]

\* 3. Timeliness
Timeliness(d, cfg) ==
    LET time_col == cfg.timeliness_col
        days_limit == cfg.timeliness_days
    IN  IF time_col # None /\ HasCol(d, time_col)
        THEN LET dates == [i \in DOMAIN d.data |-> to_datetime(Column(d, time_col)[i])]
                 n_valid == Count(dates, LAMBDA c : ~isnull(c))
                 now == get_current_time
                 now_compare ==
                     IF d.tz = "naive" /\ now = "aware" THEN "naive"
                     ELSE IF d.tz = "aware" /\ now = "naive"
                          THEN (IF APP_TIMEZONE # None THEN "aware" ELSE now)
                     ELSE IF d.tz = "aware" /\ now = "aware" THEN "aware"
                     ELSE now
                 timely_records == Count(dates, LAMBDA c : ~isnull(c) /\ c.v < days_limit.v)
                 outdated_records == n_valid - timely_records
             IN  IF n_valid > 0
                 THEN IF days_limit.t # "int" \/ now_compare # d.tz
                      THEN [res |-> Error, issue |-> FALSE]
                      ELSE [res |-> Score(calculate_percentage(timely_records, num_rows(d))),
                            issue |-> outdated_records > 0]
                 ELSE [res |-> NA, issue |-> FALSE]
        ELSE [res |-> NA, issue |-> FALSE]

\* Validity over the numeric entries only, not over all rows
Validity_OverNumericRows(d, cfg) ==
    LET validity_col == cfg.validity_col
    IN  IF validity_col # None /\ HasCol(d, validity_col)
        THEN LET vals == [i \in DOMAIN d.data |-> to_numeric(Column(d, validity_col)[i])]
                 n_numeric == Count(vals, LAMBDA c : ~isnull(c))
                 valid_vals == IF cfg.validity_condition = ">= 0"
                               THEN Count(vals, LAMBDA c : ~isnull(c) /\ c.v >= 0)
                               ELSE n_numeric
                 invalid_count == n_numeric - valid_vals
             IN  [res |-> Score(calculate_percentage(valid_vals, n_numeric)),
                  issue |-> invalid_count > 0]
        ELSE [res |-> NA, issue |-> FALSE]

\* 4. Validity
Validity(d, cfg) ==
    LET validity_col == cfg.validity_col
    IN  IF validity_col # None /\ HasCol(d, validity_col)
        THEN LET vals == [i \in DOMAIN d.data |-> to_numeric(Column(d, validity_col)[i])]
                 n_numeric == Count(vals, LAMBDA c : ~isnull(c))
                 valid_vals == IF cfg.validity_condition = ">= 0"
                               THEN Count(vals, LAMBDA c : ~isnull(c) /\ c.v >= 0)
                               ELSE n_numeric
                 invalid_count == n_numeric - valid_vals
             IN  [res |-> Score(calculate_percentage(valid_vals, num_rows(d))),
                  issue |-> invalid_count > 0]
        ELSE [res |-> NA, issue |-> FALSE]

\* Consistency without the 'or missing' term: only numbers within the
\* range are consistent
Consistency_MissingInconsistent(d, cfg) ==
    LET consistency_col == cfg.consistency_col
        consistency_range == cfg.consistency_range
    IN  IF consistency_col # None /\ HasCol(d, consistency_col)
           /\ consistency_range.type = "tuple" /\ consistency_range.len = 2
        THEN LET scores == [i \in DOMAIN d.data |-> to_numeric(Column(d, consistency_col)[i])]
                 consistent_scores ==
                     Count(scores, LAMBDA c : ~isnull(c)
                                      /\ c.v >= consistency_range.min /\ c.v <= consistency_range.max)
                 inconsistent_count == num_rows(d) - consistent_scores
             IN  IF ~consistency_range.numeric
                 THEN [res |-> Error, issue |-> FALSE]
                 ELSE [res |-> Score(calculate_percentage(consistent_scores, num_rows(d))),
                       issue |-> inconsistent_count > 0]
        ELSE [res |-> NA, issue |-> FALSE]

\* 5. Consistency
Consistency(d, cfg) ==
    LET consistency_col == cfg.consistency_col
        consistency_range == cfg.consistency_range
    IN  IF consistency_col # None /\ HasCol(d, consistency_col)
           /\ consistency_range.type = "tuple" /\ consistency_range.len = 2
        THEN LET scores == [i \in DOMAIN d.data |-> to_numeric(Column(d, consistency_col)[i])]
                 consistent_scores ==
                     Count(scores, LAMBDA c : isnull(c)
                                      \/ (c.v >= consistency_range.min /\ c.v <= consistency_range.max))
                 inconsistent_count == num_rows(d) - consistent_scores
             IN  IF ~consistency_range.numeric
                 THEN [res |-> Error, issue |-> FALSE]
                 ELSE [res |-> Score(calculate_percentage(consistent_scores, num_rows(d))),
                       issue |-> inconsistent_count > 0]
        ELSE [res |-> NA, issue |-> FALSE]

DimensionCheck(name, d, cfg) ==
    CASE name = "Completeness" -> Completeness(d, cfg)
      [] name = "Uniqueness" -> Uniqueness(d, cfg)
      [] name = "Timeliness" -> Timeliness(d, cfg)
      [] name = "Validity" -> Validity(d, cfg)
      [] name = "Consistency" -> Consistency(d, cfg)

\* the pair (results, issues_summary) the function returns; issues_summary is
\* kept as the set of dimensions that have an entry
run_mock_dama_checks(d, cfg) ==
    IF IsEmpty(d)
    THEN [results |-> [n \in {"Overall Status"} |-> [t |-> "text", v |-> 0]],
          issues_summary |-> {}]
    ELSE [results |-> [n \in Range(Dimensions) |-> DimensionCheck(n, d, cfg).res],
          issues_summary |-> {n \in Range(Dimensions) : DimensionCheck(n, d, cfg).issue}]

(***************************************************************************)
(* simulate_sql_analysis.  The trust score is the mean of the numeric      *)
(* results; the 'AI insight' line then takes min() over the results by     *)
(* value, and Python cannot order a float against a text: with a numeric   *)
(* and a non-numeric result side by side the call raises TypeError.        *)
(***************************************************************************)
EmptyDict == [n \in {} |-> NA]

valid_scores(results) ==
    SelectSeq([i \in DOMAIN Dimensions |-> results[Dimensions[i]]], LAMBDA r : r.t = "num")

trust_scores(results) ==
    LET vs == valid_scores(results)
    IN  IF vs # <<>>
        THEN RoundTenths(SumSeq([i \in DOMAIN vs |-> vs[i].v]), Len(vs))
        ELSE {0}

\* min(dama_results, key=...) compares a float with a str
insight_raises(results) ==
    /\ valid_scores(results) # <<>>
    /\ \E n \in DOMAIN results : results[n].t # "num"

simulate_sql_analysis(d, cfg) ==
    IF IsEmpty(d)
    THEN {[status |-> "returned", trust_score |-> 0,
           dama_results |-> EmptyDict, issues_summary |-> {}]}
    ELSE LET r == run_mock_dama_checks(d, cfg)
         IN  IF insight_raises(r.results)
             THEN {[status |-> "raised", trust_score |-> 0,
                    dama_results |-> EmptyDict, issues_summary |-> {}]}
             ELSE {[status |-> "returned", trust_score |-> t,
                    dama_results |-> r.results, issues_summary |-> r.issues_summary]
                   : t \in trust_scores(r.results)}

(***************************************************************************)
(* Tables kept in the session state (pandas DataFrame).  index_name is the *)
(* name of the index (None for the default RangeIndex), index the row      *)
(* labels, columns the column labels, data the rows.  All labels and cells *)
(* of these tables are texts.                                              *)
(***************************************************************************)
IntLabel(i) == <<"0", "1", "2", "3", "4", "5", "6">>[i]

RangeIndex(n) == [i \in 1..n |-> IntLabel(i)]

DataFrame(index_name, index, columns, data) ==
    [type |-> "DataFrame", index_name |-> index_name, index |-> index,
     columns |-> columns, data |-> data]

\* the sequence s without its i-th element
Without(s, i) == [j \in 1..(Len(s) - 1) |-> IF j < i THEN s[j] ELSE s[j + 1]]

\* DataFrame.reset_index(): the index becomes the first column, under its
\* name ('index' when it has none)
reset_index(t) ==
    DataFrame(None, RangeIndex(Len(t.data)),
              <<IF t.index_name = None THEN "index" ELSE t.index_name>> \o t.columns,
              [i \in DOMAIN t.data |-> <<t.index[i]>> \o t.data[i]])

\* DataFrame.set_index(col): the column becomes the index, duplicates and all
set_index(t, col) ==
    LET c == CHOOSE j \in DOMAIN t.columns : t.columns[j] = col
    IN  DataFrame(col, [i \in DOMAIN t.data |-> t.data[i][c]],
                  Without(t.columns, c),
                  [i \in DOMAIN t.data |-> Without(t.data[i], c)])

\* DataFrame.to_json(orient='split'): columns, index and data, not the name
\* of the index
to_json_split(t) ==
    [parses |-> TRUE, columns |-> t.columns, index |-> t.index, data |-> t.data]

\* a text that is not a split-oriented table
BadText == [parses |-> FALSE, columns |-> <<>>, index |-> <<>>, data |-> <<>>]

\* pd.read_json(io.StringIO(text), orient='split'); raises on BadText
read_json_split(text) == DataFrame(None, text.index, text.columns, text.data)

\* DataFrame.to_dict(orient='records'): one mapping per row; a table without
\* rows gives [] and its columns are not written
to_dict_records(t) ==
    [kind |-> "records",
     columns |-> IF t.data = <<>> THEN <<>> ELSE t.columns,
     data |-> t.data]

\* a category value pd.DataFrame() cannot take (a scalar)
ScalarItems == [kind |-> "scalar", columns |-> <<>>, data |-> <<>>]

\* pd.DataFrame(items) of a list of row records; raises on ScalarItems
DataFrameOfRecords(items) ==
    DataFrame(None, RangeIndex(Len(items.data)), items.columns, items.data)

(***************************************************************************)
(* Timestamps.  A pd.Timestamp is identified, as a dict key, by whether it *)
(* is zone-aware and by its instant: t seconds and us microseconds.        *)
(* A timestamp text is an ISO-8601 text of such a value (two spellings of  *)
(* the same instant exist, e.g. with another UTC offset) or is no date.    *)
(***************************************************************************)
Timestamp(aware, t, us) == [aware |-> aware, t |-> t, us |-> us]

\* ts.isoformat()
isoformat(ts) == [kind |-> "iso", aware |-> ts.aware, t |-> ts.t, us |-> ts.us, spelling |-> 1]

\* pd.Timestamp(ts_str) raises ValueError
ParseFails(ts_str) == ts_str.kind # "iso"

\* pd.Timestamp(ts_str)
ParseTimestamp(ts_str) == Timestamp(ts_str.aware, ts_str.t, ts_str.us)

(***************************************************************************)
(* Built-in defaults, abridged: two RACI activities and one role, two      *)
(* roadmap categories of one item each.                                    *)
(***************************************************************************)
default_raci_data ==
    DataFrame(None, RangeIndex(2), <<"Activity", "CDO">>,
              << <<"Define Data Quality Rules", "A">>,
                 <<"Approve Master Data Changes", "A">> >>)

mock_roadmap_categories == {"Quick Wins (0-3 Months)", "Mid-Term (3-12 Months)"}

default_roadmap_items ==
    [c \in mock_roadmap_categories |->
        [kind |-> "records", columns |-> <<"ID", "Status">>,
         data |-> << <<IF c = "Quick Wins (0-3 Months)" THEN "QW1" ELSE "MT1", "Not Started">> >>]]

default_dq_rules_config ==
    [completeness_cols |-> <<"CustomerID">>,
     uniqueness_col |-> "CustomerID",
     timeliness_col |-> "PurchaseDate",
     timeliness_days |-> [t |-> "int", v |-> 90],
     validity_col |-> "TransactionAmount",
     validity_condition |-> ">= 0",
     consistency_col |-> "SatisfactionScore",
     consistency_range |-> [type |-> "tuple", len |-> 2, min |-> 1, max |-> 5, numeric |-> TRUE]]

PyNone == [type |-> "NoneType"]
PyBytes == [type |-> "bytes"]
PyBool(b) == [type |-> "bool", v |-> b]
PyInt(n) == [type |-> "int", v |-> n]
PyDict(cfg) == [type |-> "dict", cfg |-> cfg]
RoadmapDict(cats) == [type |-> "dict", cats |-> cats]
HistoryDict(items) == [type |-> "dict", items |-> items]
PyStr(text) == [type |-> "str", text |-> text]
\* {dim: level}, abridged to one dimension
ScoresDict(level) == [type |-> "dict", v |-> level]
\* st.session_state.dama_results and .data_analysis_issues
DamaResults(results) == [type |-> "dict", results |-> results]
IssuesDict(dims) == [type |-> "dict", dims |-> dims]
\* st.session_state.data_trust_score after an analysis, in tenths
PyFloat(x) == [type |-> "float", v |-> x]
\* st.session_state.mock_sql: "-- Analysis not run --", or the text
\* simulate_sql_analysis builds around the trust score
NotRunSql == [type |-> "str", run |-> FALSE, trust_score |-> 0]
MockSql(trust_score) == [type |-> "str", run |-> TRUE, trust_score |-> trust_score]

NoItems == [x \in {} |-> 0]

defaults ==
    [k \in {"state_initialized", "uploaded_logo_bytes", "data_trust_score",
            "current_data", "data_analysis_done", "dama_results", "mock_sql",
            "profiling_results", "data_analysis_issues", "dq_rules_config", "raci_df_json",
            "maturity_scores", "maturity_assessments_history", "roadmap_data"} |->
        CASE k = "state_initialized" -> PyBool(TRUE)
          [] k = "uploaded_logo_bytes" -> PyNone
          [] k = "data_trust_score" -> PyInt(0)
          [] k = "current_data" -> NoData
          [] k = "data_analysis_done" -> PyBool(FALSE)
          [] k = "dama_results" -> DamaResults(EmptyDict)
          [] k = "mock_sql" -> NotRunSql
          [] k = "profiling_results" -> PyNone
          [] k = "data_analysis_issues" -> IssuesDict({})
          [] k = "dq_rules_config" -> PyDict(default_dq_rules_config)
          [] k = "raci_df_json" -> set_index(default_raci_data, "Activity")
          [] k = "maturity_scores" -> ScoresDict(2)
          [] k = "maturity_assessments_history" -> HistoryDict(NoItems)
          [] k = "roadmap_data" ->
                RoadmapDict([c \in mock_roadmap_categories |->
                                DataFrameOfRecords(default_roadmap_items[c])])]

\* init_session_state whose loop leaves the keys that are present alone
init_session_state_KeepsPresent(ss, force_defaults) ==
    IF "state_initialized" \in DOMAIN ss /\ ~force_defaults
    THEN ss
    ELSE [k \in DOMAIN ss \cup DOMAIN defaults |->
             IF k \in DOMAIN defaults /\ k \notin DOMAIN ss
             THEN defaults[k]
             ELSE IF k \in {"maturity_assessments_history", "dq_rules_config"}
                     /\ (ss[k].type # "dict" \/ force_defaults)
             THEN defaults[k]
             ELSE ss[k]]

\* init_session_state(force_defaults)
init_session_state(ss, force_defaults) ==
    IF "state_initialized" \in DOMAIN ss /\ ~force_defaults
    THEN ss
    ELSE [k \in DOMAIN ss \cup DOMAIN defaults |->
             IF k \in DOMAIN defaults /\ (k \notin DOMAIN ss \/ force_defaults)
             THEN defaults[k]
             ELSE IF k \in {"maturity_assessments_history", "dq_rules_config"}
                     /\ ss[k].type # "dict"
             THEN defaults[k]
             ELSE ss[k]]

(***************************************************************************)
(* The snapshot file: absent, a text that is not JSON, a JSON text that is  *)
(* not an object, or a JSON object obj (unused in the other kinds).        *)
(* In a JSON object the history is a mapping from                          *)
(* timestamp texts to values; where two texts spell the same instant the   *)
(* second spelling stands later in the file.                               *)
(***************************************************************************)
AbsentFile == [kind |-> "absent", obj |-> NoItems]
TruncatedFile == [kind |-> "not json", obj |-> NoItems]
JsonArrayFile == [kind |-> "json array", obj |-> NoItems]
JsonFile(obj) == [kind |-> "json object", obj |-> obj]

keys_to_persist ==
    {"uploaded_logo_bytes", "dq_rules_config", "raci_df_json", "maturity_scores",
     "maturity_assessments_history", "roadmap_data"}

\* a column label that is a datetime object (a date cell in a spreadsheet
\* header), which json cannot encode
DatetimeLabels == {"2024-01-01 00:00:00"}

\* the isinstance chain of save_app_state_json for one key: whether the key
\* goes into state_to_save, and with what value
SaveValue(key, value) ==
    IF value.type = "DataFrame"
    THEN [written |-> TRUE,
          json |-> PyStr(to_json_split(IF key = "raci_df_json"
                                       THEN reset_index(value) ELSE value))]
    ELSE IF key = "roadmap_data" /\ value.type = "dict"
    THEN [written |-> TRUE,
          json |-> RoadmapDict([c \in {x \in DOMAIN value.cats :
                                          value.cats[x].type = "DataFrame"} |->
                                   to_dict_records(value.cats[c])])]
    ELSE IF key = "maturity_assessments_history" /\ value.type = "dict"
    THEN [written |-> TRUE,
          json |-> HistoryDict([s \in {isoformat(ts) : ts \in DOMAIN value.items} |->
                                   value.items[CHOOSE ts \in DOMAIN value.items :
                                                  isoformat(ts) = s]])]
    ELSE IF value.type \in {"dict", "list", "str", "int", "float", "bool", "NoneType"}
    THEN [written |-> TRUE, json |-> value]
    ELSE [written |-> FALSE, json |-> PyNone]

\* json.dump raises TypeError on this value (a leaf json cannot encode)
json_raises(key, value) ==
    /\ key = "dq_rules_config"
    /\ value.type = "dict"
    /\ \/ \E i \in DOMAIN value.cfg.completeness_cols :
             value.cfg.completeness_cols[i] \in DatetimeLabels
       \/ value.cfg.uniqueness_col \in DatetimeLabels

\* what json.dump writes and json.load reads back: a tuple comes back a list
json_encode(key, value) ==
    IF key = "dq_rules_config" /\ value.type = "dict"
    THEN PyDict([value.cfg EXCEPT !.consistency_range.type = "list"])
    ELSE value

\* save_app_state_json(): the file afterwards and the value returned.  The
\* file is opened for writing (and so emptied) before json.dump runs, and
\* json.dump writes as it goes: when it raises, a cut-off text is left.
save_app_state_json(ss) ==
    LET keys == {k \in keys_to_persist \cap DOMAIN ss : SaveValue(k, ss[k]).written}
        state_to_save == [k \in keys |-> SaveValue(k, ss[k]).json]
    IN  IF \E k \in keys : json_raises(k, state_to_save[k])
        THEN [file |-> TruncatedFile, ret |-> FALSE, warn |-> {"Error saving state to JSON"}]
        ELSE [file |-> JsonFile([k \in keys |-> json_encode(k, state_to_save[k])]),
              ret |-> TRUE, warn |-> {}]

\* key.endswith('_df_json')
EndsWithDfJson(key) == key \in {"raci_df_json", "extra_df_json"}

default_raci == set_index(default_raci_data, "Activity")

\* the history rebuilt without the inner try: one text that does not parse
\* and the whole history is the empty default
LoadHistory_AllOrNothing(items) ==
    LET good == {s \in DOMAIN items : ~ParseFails(s)}
    IN  [ts \in (IF good = DOMAIN items THEN {ParseTimestamp(s) : s \in good} ELSE {}) |->
            items[CHOOSE s \in good :
                     /\ ParseTimestamp(s) = ts
                     /\ \A o \in good : ParseTimestamp(o) = ts => o.spelling <= s.spelling]]

\* the history rebuilt from the file's mapping: texts that do not parse are
\* skipped, a later text of the same instant replaces the earlier
LoadHistory(items) ==
    LET good == {s \in DOMAIN items : ~ParseFails(s)}
    IN  [ts \in {ParseTimestamp(s) : s \in good} |->
            items[CHOOSE s \in good :
                     /\ ParseTimestamp(s) = ts
                     /\ \A o \in good : ParseTimestamp(o) = ts => o.spelling <= s.spelling]]

\* one turn of the loop without the 'Activity' check: the table is kept as
\* read when it has no such column
LoadKey_Unchecked(key, value) ==
    IF key = "raci_df_json" /\ value.type = "str"
    THEN IF ~value.text.parses
         THEN [assign |-> TRUE, value |-> default_raci,
               warn |-> {"Could not load RACI DataFrame state"}]
         ELSE IF \E i \in DOMAIN value.text.columns : value.text.columns[i] = "Activity"
         THEN [assign |-> TRUE, value |-> set_index(read_json_split(value.text), "Activity"),
               warn |-> {}]
         ELSE [assign |-> TRUE, value |-> read_json_split(value.text), warn |-> {}]
    ELSE IF key = "roadmap_data" /\ value.type = "dict"
    THEN IF \E c \in DOMAIN value.cats : value.cats[c].kind # "records"
         THEN [assign |-> TRUE, value |-> defaults["roadmap_data"],
               warn |-> {"Could not load Roadmap state"}]
         ELSE [assign |-> TRUE,
               value |-> RoadmapDict([c \in DOMAIN value.cats |->
                                         DataFrameOfRecords(value.cats[c])]),
               warn |-> {}]
    ELSE IF key = "maturity_assessments_history" /\ value.type = "dict"
    THEN [assign |-> TRUE, value |-> HistoryDict(LoadHistory(value.items)),
          warn |-> IF \E s \in DOMAIN value.items : ParseFails(s)
                   THEN {"Could not parse timestamp"} ELSE {}]
    ELSE IF EndsWithDfJson(key) /\ value.type = "str"
    THEN IF ~value.text.parses
         THEN [assign |-> FALSE, value |-> PyNone, warn |-> {"Could not load DataFrame state"}]
         ELSE [assign |-> TRUE, value |-> read_json_split(value.text), warn |-> {}]
    ELSE [assign |-> TRUE, value |-> value, warn |-> {}]

\* one turn of the loop of load_app_state_json: whether session_state[key]
\* is assigned, the value, and the warnings surfaced
LoadKey(key, value) ==
    IF key = "raci_df_json" /\ value.type = "str"
    THEN IF ~value.text.parses
         THEN [assign |-> TRUE, value |-> default_raci,
               warn |-> {"Could not load RACI DataFrame state"}]
         ELSE IF \E i \in DOMAIN value.text.columns : value.text.columns[i] = "Activity"
         THEN [assign |-> TRUE, value |-> set_index(read_json_split(value.text), "Activity"),
               warn |-> {}]
         ELSE [assign |-> TRUE, value |-> default_raci,
               warn |-> {"Loaded RACI data missing 'Activity' column"}]
    ELSE IF key = "roadmap_data" /\ value.type = "dict"
    THEN IF \E c \in DOMAIN value.cats : value.cats[c].kind # "records"
         THEN [assign |-> TRUE, value |-> defaults["roadmap_data"],
               warn |-> {"Could not load Roadmap state"}]
         ELSE [assign |-> TRUE,
               value |-> RoadmapDict([c \in DOMAIN value.cats |->
                                         DataFrameOfRecords(value.cats[c])]),
               warn |-> {}]
    ELSE IF key = "maturity_assessments_history" /\ value.type = "dict"
    THEN [assign |-> TRUE, value |-> HistoryDict(LoadHistory(value.items)),
          warn |-> IF \E s \in DOMAIN value.items : ParseFails(s)
                   THEN {"Could not parse timestamp"} ELSE {}]
    ELSE IF EndsWithDfJson(key) /\ value.type = "str"
    THEN IF ~value.text.parses
         THEN [assign |-> FALSE, value |-> PyNone, warn |-> {"Could not load DataFrame state"}]
         ELSE [assign |-> TRUE, value |-> read_json_split(value.text), warn |-> {}]
    ELSE [assign |-> TRUE, value |-> value, warn |-> {}]

\* load_app_state_json without the inner handlers: a value that cannot be
\* rebuilt ends the load in the outer handler
load_app_state_json_Aborting(ss, file) ==
    IF file.kind # "absent"
    THEN IF file.kind = "json object" /\ \A k \in DOMAIN file.obj : LoadKey(k, file.obj[k]).warn = {}
         THEN LET assigned == {k \in DOMAIN file.obj : LoadKey(k, file.obj[k]).assign}
              IN  [ss |-> [k \in DOMAIN ss \cup assigned |->
                              IF k \in assigned THEN LoadKey(k, file.obj[k]).value ELSE ss[k]],
                   ret |-> TRUE,
                   warn |-> {}]
         ELSE [ss |-> init_session_state(ss, TRUE), ret |-> FALSE,
               warn |-> {"Error loading state file"}]
    ELSE [ss |-> init_session_state(ss, TRUE), ret |-> FALSE, warn |-> {}]

\* load_app_state_json(): the session state afterwards, the value returned
\* and the warnings surfaced
load_app_state_json(ss, file) ==
    IF file.kind # "absent"
    THEN IF file.kind = "json object"
         THEN LET assigned == {k \in DOMAIN file.obj : LoadKey(k, file.obj[k]).assign}
              IN  [ss |-> [k \in DOMAIN ss \cup assigned |->
                              IF k \in assigned THEN LoadKey(k, file.obj[k]).value ELSE ss[k]],
                   ret |-> TRUE,
                   warn |-> UNION {LoadKey(k, file.obj[k]).warn : k \in DOMAIN file.obj}]
         ELSE [ss |-> init_session_state(ss, TRUE), ret |-> FALSE,
               warn |-> {"Error loading state file"}]
    ELSE [ss |-> init_session_state(ss, TRUE), ret |-> FALSE, warn |-> {}]

(***************************************************************************)
(* Scorer inputs.                                                          *)
(***************************************************************************)
CellsA == {NaN, Num(-1), Num(5), Str(1), Date(10), Date(90)}

RowsUpTo(n) == UNION {[1..m -> CellsA] : m \in 1..n}

HasDates(colA) == \E i \in DOMAIN colA : colA[i].k = "date"

\* column A is free; column B, when present, is a column without values
Datasets ==
    {NoData}
    \cup {[columns |-> <<"A">>, data |-> [i \in DOMAIN a |-> <<a[i]>>], tz |-> z]
            : <<a, z>> \in {p \in RowsUpTo(MaxRows) \X {"naive", "aware"} :
                               p[2] = "aware" => HasDates(p[1])}}
    \cup {[columns |-> <<"A", "B">>, data |-> [i \in DOMAIN a |-> <<a[i], NaN>>], tz |-> z]
            : <<a, z>> \in {p \in RowsUpTo(MaxRows) \X {"naive", "aware"} :
                               p[2] = "aware" => HasDates(p[1])}}

Int90 == [t |-> "int", v |-> 90]
BadDays == [t |-> "str", v |-> 0]

Range15 == [type |-> "tuple", len |-> 2, min |-> 1, max |-> 5, numeric |-> TRUE]
List15 == [type |-> "list", len |-> 2, min |-> 1, max |-> 5, numeric |-> TRUE]
BadRange == [type |-> "tuple", len |-> 2, min |-> 0, max |-> 5, numeric |-> FALSE]

Configs ==
    [completeness_cols : {<<>>, <<"Z", "A", "B">>},
     uniqueness_col : {None, "A", "Z"},
     timeliness_col : {"A", "Z"},
     timeliness_days : {Int90, BadDays},
     validity_col : {"A", "Z"},
     validity_condition : {">= 0", "> 0"},
     consistency_col : {"A"},
     consistency_range : {Range15, List15, BadRange}]

NoCall == [op |-> "none", val |-> FALSE]

NoResult == [results |-> EmptyDict, issues_summary |-> {}]
NoSim == [status |-> "none", trust_score |-> 0, dama_results |-> EmptyDict, issues_summary |-> {}]

InitScorer ==
    /\ APP_TIMEZONE \in {"Europe/London", None}
    /\ df \in Datasets
    /\ config \in Configs
    /\ checks = NoResult
    /\ sim = NoSim
    /\ spc = "input"
    /\ pc = "idle" /\ click = "none" /\ arg = 0
    /\ session_state = NoItems
    /\ state_file = AbsentFile
    /\ ret = NoCall
    /\ warnings = {}
    /\ clock = 1
    /\ inputs = 0
    /\ logo_uploader = FALSE
    /\ saved_state = NoItems

\* the harness calls run_mock_dama_checks(df, config)
RunChecks ==
    /\ spc = "input"
    /\ checks' = run_mock_dama_checks(df, config)
    /\ spc' = "checked"
    /\ UNCHANGED <<APP_TIMEZONE, df, config, sim>>
    /\ UNCHANGED app_vars

\* the harness calls simulate_sql_analysis(df, config)
Simulate ==
    /\ spc = "checked"
    /\ sim' \in simulate_sql_analysis(df, config)
    /\ spc' = "done"
    /\ UNCHANGED <<APP_TIMEZONE, df, config, checks>>
    /\ UNCHANGED app_vars

NextScorer == RunChecks \/ Simulate

SpecScorer == InitScorer /\ [][NextScorer]_vars

(***************************************************************************)
(* Properties of the scorer (under SpecScorer).                            *)
(***************************************************************************)
\* the numeric results among the five dimension results
NumericResults(results) ==
    SelectSeq([i \in DOMAIN Dimensions |-> results[Dimensions[i]]], LAMBDA r : r.t = "num")

\* t (in tenths) is the mean of the scores s, rounded to one decimal; at an
\* exact tie either neighbour is accepted
IsRoundedMean(t, s) ==
    LET total == SumSeq([i \in DOMAIN s |-> s[i].v])
        d == t * Len(s) - total
    IN  2 * (IF d < 0 THEN -d ELSE d) <= Len(s)

\* C2: for every non-empty dataset and every rule configuration,
\* simulate_sql_analysis returns a trust score, and it is the mean, rounded
\* to one decimal, of exactly the numeric dimension results of
\* run_mock_dama_checks; it is 0 when no result is numeric.
TrustScoreIsMeanOfNumeric ==
    (spc = "done" /\ ~IsEmpty(df)) =>
        /\ sim.status = "returned"
        /\ LET s == NumericResults(checks.results)
           IN  IF s = <<>> THEN sim.trust_score = 0
               ELSE IsRoundedMean(sim.trust_score, s)

\* C3: each of the five dimension results of run_mock_dama_checks is a
\* number in the closed range [0, 100] (0..1000 tenths) or one of the two
\* sentinels; nothing else is produced.
DimensionResultsInRange ==
    (spc \in {"checked", "done"} /\ ~IsEmpty(df)) =>
        /\ DOMAIN checks.results = Range(Dimensions)
        /\ \A n \in Range(Dimensions) :
              LET r == checks.results[n]
              IN  \/ r = NA
                  \/ r = Error
                  \/ (r.t = "num" /\ r.v \in 0..1000)

\* C3, the case: a checked dataset of two rows with a score strictly inside
\* the range next to a full score, an N/A and an Error
DimensionResultsWitness ==
    /\ spc = "checked"
    /\ Len(df.data) = 2
    /\ checks.results["Uniqueness"] = Score(500)
    /\ checks.results["Completeness"] = Score(1000)
    /\ checks.results["Validity"] = NA
    /\ checks.results["Consistency"] = Error

\* the configuration with dimension n switched off (its column unset), so
\* that n is 'N/A' and cannot fail
SwitchedOff(n, cfg) ==
    CASE n = "Completeness" -> [cfg EXCEPT !.completeness_cols = <<>>]
      [] n = "Uniqueness" -> [cfg EXCEPT !.uniqueness_col = None]
      [] n = "Timeliness" -> [cfg EXCEPT !.timeliness_col = None]
      [] n = "Validity" -> [cfg EXCEPT !.validity_col = None]
      [] n = "Consistency" -> [cfg EXCEPT !.consistency_col = None]

\* C5: a failure in one dimension makes only that dimension's result an
\* Error: the other four are as they are with that dimension switched off,
\* and the analysis returns a trust score that is the mean of the numeric
\* results, the failed dimension not among them.
FailureIsIsolated ==
    \A n \in Range(Dimensions) :
        (spc = "done" /\ ~IsEmpty(df) /\ checks.results[n] = Error) =>
            /\ \A m \in Range(Dimensions) \ {n} :
                  checks.results[m] = run_mock_dama_checks(df, SwitchedOff(n, config)).results[m]
            /\ sim.status = "returned"
            /\ LET s == NumericResults(checks.results)
               IN  IF s = <<>> THEN sim.trust_score = 0
                   ELSE IsRoundedMean(sim.trust_score, s)

\* the scorer has run on a dataset that is not empty
Checked == spc \in {"checked", "done"} /\ ~IsEmpty(df)

\* t (in tenths) is 100 x num / den rounded to one decimal
IsRoundedPercent(t, num, den) ==
    LET d == t * den - 1000 * num
    IN  2 * (IF d < 0 THEN -d ELSE d) <= den

\* the positions of the configured completeness columns the dataset has
PresentConfigured ==
    {i \in DOMAIN config.completeness_cols : HasCol(df, config.completeness_cols[i])}

\* the cells of the dataset under the present configured columns that hold
\* a value
NonMissingCells ==
    {<<r, i>> \in (DOMAIN df.data) \X PresentConfigured :
        Column(df, config.completeness_cols[i])[r].k # "nan"}

\* C12: when a configured completeness column is present, Completeness is
\* 100 x (non-missing cells) / (rows x present configured columns), rounded
\* to one decimal, over the present configured columns only; when the list
\* is empty or none of its columns is present it is 'N/A'.
CompletenessIsShareOfCells ==
    Checked =>
        LET r == checks.results["Completeness"]
        IN  IF PresentConfigured # {}
            THEN /\ r.t = "num"
                 /\ IsRoundedPercent(r.v, Cardinality(NonMissingCells),
                                     Len(df.data) * Cardinality(PresentConfigured))
            ELSE r = NA

\* C12, the case: two rows, one configured column absent, one present with
\* one of its two cells missing and one present without values: 1 of 4
CompletenessWitness ==
    /\ spc = "checked"
    /\ Len(df.data) = 2
    /\ Cardinality(PresentConfigured) = 2
    /\ Len(config.completeness_cols) = 3
    /\ Cardinality(NonMissingCells) = 1
    /\ checks.results["Completeness"] = Score(250)

\* the rows of the dataset whose cell under col holds a value
NonMissingRows(col) == {r \in DOMAIN df.data : Column(df, col)[r].k # "nan"}

\* C13: when the configured uniqueness column is present, Uniqueness is
\* 100 x (distinct non-missing values) / (non-missing values), rounded to
\* one decimal, and exactly 100 when the column has no non-missing value;
\* when no column is configured or the column is not present it is 'N/A'.
UniquenessIsShareOfDistinct ==
    Checked =>
        LET col == config.uniqueness_col
            r == checks.results["Uniqueness"]
        IN  IF col # None /\ HasCol(df, col)
            THEN /\ r.t = "num"
                 /\ IF NonMissingRows(col) = {}
                    THEN r.v = 1000
                    ELSE IsRoundedPercent(r.v,
                                          Cardinality({Column(df, col)[i] : i \in NonMissingRows(col)}),
                                          Cardinality(NonMissingRows(col)))
            ELSE r = NA

\* C13, the case: a column of one value and one missing cell is fully
\* unique, the missing cell not counted
UniquenessWitness ==
    /\ spc = "checked"
    /\ config.uniqueness_col = "A"
    /\ Len(df.data) = 2
    /\ Cardinality(NonMissingRows("A")) = 1
    /\ checks.results["Uniqueness"] = Score(1000)

\* the rows of the dataset whose cell under col pandas reads as a date
ParseableRows(col) == {r \in DOMAIN df.data : to_datetime(Column(df, col)[r]).k = "date"}

\* the rows whose date is strictly later than now minus days
TimelyRows(col, days) ==
    {r \in ParseableRows(col) : to_datetime(Column(df, col)[r]).v < days}

\* the timeliness column is configured and present and timeliness_days is
\* a number of days
TimelinessConfigured ==
    /\ Checked
    /\ config.timeliness_col # None
    /\ HasCol(df, config.timeliness_col)
    /\ config.timeliness_days.t = "int"

\* C14: when the configured date column is present and has a parseable
\* date, Timeliness is 100 x (rows whose date is strictly later than now
\* minus timeliness_days) / (all rows, those without a parseable date
\* included), rounded to one decimal; when no date is parseable it is 'N/A'.
TimelinessIsShareOfRecentRows ==
    TimelinessConfigured =>
        LET col == config.timeliness_col
            r == checks.results["Timeliness"]
        IN  IF ParseableRows(col) # {}
            THEN /\ r.t = "num"
                 /\ IsRoundedPercent(r.v,
                                     Cardinality(TimelyRows(col, config.timeliness_days.v)),
                                     Len(df.data))
            ELSE r = NA

\* C15: whether the date column carries zone information or not and
\* whether the current time does (APP_TIMEZONE set) or not (None),
\* Timeliness is a number or 'N/A', never an 'Error'.
TimelinessNeverFailsOnZones ==
    TimelinessConfigured =>
        /\ df.tz \in {"naive", "aware"}
        /\ get_current_time \in {"naive", "aware"}
        /\ checks.results["Timeliness"] # Error

\* the rows of the dataset whose cell under col coerces to a number
NumericRows(col) == {r \in DOMAIN df.data : to_numeric(Column(df, col)[r]).k = "num"}

\* the numeric rows whose number is >= 0
NonNegativeRows(col) == {r \in NumericRows(col) : to_numeric(Column(df, col)[r]).v >= 0}

ValidityConfigured ==
    /\ Checked
    /\ config.validity_col # None
    /\ HasCol(df, config.validity_col)

\* C16 as stated: when the configured column is present, Validity is
\* 100 x (passing entries) / (all rows), rounded to one decimal, where under
\* '>= 0' an entry passes iff it coerces to a number >= 0 and under any
\* other condition every entry passes.
ValidityEveryEntryPasses ==
    ValidityConfigured =>
        LET col == config.validity_col
            r == checks.results["Validity"]
            passing == IF config.validity_condition = ">= 0"
                       THEN Cardinality(NonNegativeRows(col))
                       ELSE Len(df.data)
        IN  r.t = "num" /\ IsRoundedPercent(r.v, passing, Len(df.data))

\* C16, amended: when the configured column is present, Validity is
\* 100 x (passing entries) / (all rows), rounded to one decimal, where under
\* '>= 0' an entry passes iff it coerces to a number >= 0 and under any
\* other condition iff it coerces to a number; missing and non-numeric
\* entries are never in the numerator and always in the denominator.
ValidityIsShareOfPassing ==
    ValidityConfigured =>
        LET col == config.validity_col
            r == checks.results["Validity"]
            passing == IF config.validity_condition = ">= 0"
                       THEN Cardinality(NonNegativeRows(col))
                       ELSE Cardinality(NumericRows(col))
        IN  r.t = "num" /\ IsRoundedPercent(r.v, passing, Len(df.data))

\* C16, the case: under an unknown condition, a column of one number and
\* one entry that is no number scores 50
ValidityWitness ==
    /\ spc = "checked"
    /\ config.validity_col = "A"
    /\ config.validity_condition # ">= 0"
    /\ Len(df.data) = 2
    /\ Cardinality(NumericRows("A")) = 1
    /\ checks.results["Validity"] = Score(500)

\* the consistency column is configured and present, and the range is a
\* pair (min, max) of numbers
ConsistencyConfigured ==
    /\ Checked
    /\ config.consistency_col # None
    /\ HasCol(df, config.consistency_col)
    /\ config.consistency_range.type = "tuple"
    /\ config.consistency_range.len = 2
    /\ config.consistency_range.numeric

\* the rows whose entry is missing, is no number, or is a number within
\* the inclusive range
ConsistentRows(col, lo, hi) ==
    {r \in DOMAIN df.data :
        \/ r \notin NumericRows(col)
        \/ (to_numeric(Column(df, col)[r]).v >= lo /\ to_numeric(Column(df, col)[r]).v <= hi)}

MaxClock == 2
MaxInputs == 4

\* ss with ss[key] = value
Assign(ss, key, value) ==
    [k \in DOMAIN ss \cup {key} |-> IF k = key THEN value ELSE ss[k]]

\* the tables the user can leave in the RACI editor
RaciEdits ==
    << set_index(DataFrame(None, RangeIndex(2), <<"Activity", "CDO">>,
                           << <<"Define Data Quality Rules", "R">>,
                              <<"Approve Master Data Changes", "A">> >>), "Activity"),
       set_index(DataFrame(None, RangeIndex(1), <<"Activity", "CDO">>,
                           << <<"Manage Data Dictionary", "">> >>), "Activity") >>

\* the datasets the user can load: the second has a spreadsheet header cell
\* that is a date; the third is 'Load Mock Sales Data' abridged to two rows
\* and the columns the default rules name (a repeated CustomerID, purchase
\* dates older than the limit, a negative amount, a missing score)
AppDatasets ==
    << [columns |-> <<"CustomerID">>, data |-> << <<Str(1)>> >>, tz |-> "naive"],
       [columns |-> <<"CustomerID", "2024-01-01 00:00:00">>,
        data |-> << <<Str(1), Num(5)>> >>, tz |-> "naive"],
       [columns |-> <<"CustomerID", "PurchaseDate", "TransactionAmount", "SatisfactionScore">>,
        data |-> << <<Str(1), Date(400), Num(5), Num(5)>>,
                    <<Str(1), Date(400), Num(-1), NaN>> >>,
        tz |-> "naive"] >>

\* what the user can pick in the completeness multiselect: nothing, the
\* first column, the last column
ColumnPicks(columns) ==
    IF columns = <<>> THEN << <<>>, <<>>, <<>> >>
    ELSE << <<>>, <<columns[1]>>, <<columns[Len(columns)]>> >>

\* what the user can pick in the uniqueness selectbox: None, the first
\* column
UniquenessPicks(columns) ==
    IF columns = <<>> THEN <<None, None>>
    ELSE <<None, columns[1]>>

\* the snapshot files a session can start with
FileRaciTexts ==
    {to_json_split(DataFrame(None, RangeIndex(1), <<"Activity", "CDO">>,
                             << <<"Set Data Access Policy", "R">> >>)),
     to_json_split(DataFrame(None, RangeIndex(1), <<"Task", "CDO">>,
                             << <<"Set Data Access Policy", "R">> >>)),
     to_json_split(DataFrame(None, RangeIndex(2), <<"Activity", "CDO">>,
                             << <<"Set Data Access Policy", "R">>,
                                <<"Set Data Access Policy", "A">> >>)),
     BadText}

FileRoadmaps ==
    {[c \in {"Quick Wins (0-3 Months)"} |->
         [kind |-> "records", columns |-> <<"ID", "Status">>,
          data |-> << <<"QW7", "Completed">> >>]],
     [c \in {"Quick Wins (0-3 Months)"} |-> ScalarItems]}

Assessment(level) == [scores |-> level, evidence |-> ""]

BadTimestampText == [kind |-> "no date", aware |-> FALSE, t |-> 0, us |-> 0, spelling |-> 1]

FileHistories ==
    LET s1 == isoformat(Timestamp(TRUE, 0, 1))
        s2 == [s1 EXCEPT !.spelling = 2]
    IN  << [s \in {s1} |-> Assessment(3)],
           [s \in {s1, BadTimestampText} |-> IF s = s1 THEN Assessment(3) ELSE Assessment(4)],
           [s \in {s1, s2, BadTimestampText} |->
               IF s = s1 THEN Assessment(3) ELSE IF s = s2 THEN Assessment(4) ELSE Assessment(2)] >>

Absent == [type |-> "absent"]

\* what stands under extra_df_json, next to each of the histories: a text
\* that is no table, a table text, nothing
FileExtras ==
    << PyStr(BadText),
       PyStr(to_json_split(DataFrame(None, RangeIndex(1), <<"Term">>, << <<"MDM">> >>))),
       Absent >>

\* a JSON object of the model holds every persisted key, and possibly a
\* further table under extra_df_json; dq_rules_config, maturity_scores and
\* uploaded_logo_bytes are as save writes them from the defaults
FileObject(raci, roadmap, history, extra) ==
    [k \in {"dq_rules_config", "maturity_scores", "uploaded_logo_bytes",
            "raci_df_json", "roadmap_data", "maturity_assessments_history"}
           \cup (IF extra = Absent THEN {} ELSE {"extra_df_json"}) |->
        CASE k = "dq_rules_config" -> json_encode(k, PyDict(default_dq_rules_config))
          [] k = "maturity_scores" -> ScoresDict(2)
          [] k = "uploaded_logo_bytes" -> PyNone
          [] k = "raci_df_json" -> raci
          [] k = "roadmap_data" -> roadmap
          [] k = "maturity_assessments_history" -> history
          [] k = "extra_df_json" -> extra]

InitialFiles ==
    {AbsentFile, TruncatedFile, JsonArrayFile}
    \cup {JsonFile(FileObject(PyStr(raci), RoadmapDict(roadmap),
                               HistoryDict(FileHistories[i]), FileExtras[i])) :
            raci \in FileRaciTexts,
            roadmap \in FileRoadmaps,
            i \in DOMAIN FileHistories}

Init ==
    /\ APP_TIMEZONE \in {"Europe/London", None}
    /\ df = NoData
    /\ config = default_dq_rules_config
    /\ checks = NoResult
    /\ sim = NoSim
    /\ spc = "off"
    /\ pc = "start" /\ click = "none" /\ arg = 0
    /\ session_state = NoItems
    /\ state_file \in InitialFiles
    /\ ret = NoCall
    /\ warnings = {}
    /\ clock = 1
    /\ inputs = 0
    /\ logo_uploader = FALSE
    /\ saved_state = NoItems

Clicks ==
    ({"none", "save", "load", "upload_logo", "clear_logo_uploader", "remove_logo"} \X {0})
    \cup ({"load_data"} \X {1, 2})
    \cup ({"select_columns"} \X (1..3))
    \cup ({"edit_raci"} \X DOMAIN RaciEdits)
    \cup ({"save_current"} \X {0, 1})
    \cup ({"set_score"} \X {2, 3})

\* the top of the script: 'if state_initialized not in st.session_state:
\* load_app_state_json()'
BeginRun(c, a) ==
    /\ (pc = "idle" /\ c # "none") \/ (pc \in {"start", "rerun"} /\ c = "none")
    /\ click' = c
    /\ arg' = a
    /\ IF "state_initialized" \notin DOMAIN session_state
       THEN LET r == load_app_state_json(session_state, state_file)
            IN  /\ session_state' = r.ss
                /\ ret' = [op |-> "load", val |-> r.ret]
                /\ warnings' = r.warn
       ELSE /\ ret' = NoCall
            /\ warnings' = {}
            /\ UNCHANGED session_state
    /\ pc' = "landing"
    /\ inputs' = IF c = "none" THEN inputs ELSE inputs + 1
    /\ logo_uploader' = CASE c = "upload_logo" -> TRUE
                           [] c = "clear_logo_uploader" -> FALSE
                           [] OTHER -> logo_uploader
    /\ UNCHANGED <<state_file, clock, saved_state>>
    /\ UNCHANGED <<APP_TIMEZONE, df, config, checks, sim, spc>>

\* tab_landing_page, the Save State and Load State buttons; a successful
\* load reruns the script at once
LandingPageButtons ==
    /\ pc = "landing"
    /\ CASE click = "save" ->
              LET r == save_app_state_json(session_state)
              IN  /\ state_file' = r.file
                  /\ ret' = [op |-> "save", val |-> r.ret]
                  /\ warnings' = warnings \cup r.warn
                                 \cup (IF r.ret THEN {} ELSE {"Failed to save state."})
                  /\ pc' = "logo"
                  /\ saved_state' = IF r.ret THEN session_state ELSE NoItems
                  /\ UNCHANGED session_state
         [] click = "load" ->
              LET r == load_app_state_json(session_state, state_file)
              IN  /\ session_state' = r.ss
                  /\ ret' = [op |-> "load", val |-> r.ret]
                  /\ warnings' = warnings \cup r.warn
                                 \cup (IF r.ret THEN {} ELSE {"Failed to load state or no state file found."})
                  /\ pc' = IF r.ret THEN "rerun" ELSE "logo"
                  /\ UNCHANGED <<state_file, saved_state>>
         [] OTHER ->
              /\ pc' = "logo"
              /\ UNCHANGED <<session_state, state_file, ret, warnings, saved_state>>
    /\ UNCHANGED <<click, arg, clock, inputs, logo_uploader>>
    /\ UNCHANGED <<APP_TIMEZONE, df, config, checks, sim, spc>>

\* tab_landing_page, the logo: a file held by the uploader is stored on
\* every run; Remove Logo clears the stored logo and reruns
LandingPageLogo ==
    /\ pc = "logo"
    /\ LET ss == IF logo_uploader
                 THEN Assign(session_state, "uploaded_logo_bytes", PyBytes)
                 ELSE session_state
       IN  IF /\ click = "remove_logo"
              /\ "uploaded_logo_bytes" \in DOMAIN ss
              /\ ss["uploaded_logo_bytes"] = PyBytes
           THEN /\ session_state' = Assign(ss, "uploaded_logo_bytes", PyNone)
                /\ pc' = "rerun"
           ELSE /\ session_state' = ss
                /\ pc' = "tabs"
    /\ UNCHANGED <<click, arg, state_file, ret, warnings, clock, inputs, logo_uploader, saved_state>>
    /\ UNCHANGED <<APP_TIMEZONE, df, config, checks, sim, spc>>

\* run_basic_profiling: df.describe(include=np.number) and
\* df.describe(include='object') raise ValueError when the dataset has no
\* column of numbers, or no column of texts (a column of dates is neither)
IsNumericColumn(d, col) ==
    \A i \in DOMAIN d.data : Column(d, col)[i].k \in {"num", "nan"}

IsObjectColumn(d, col) ==
    \E i \in DOMAIN d.data : Column(d, col)[i].k = "str"

profiling_raises(d) ==
    /\ ~IsEmpty(d)
    /\ \/ ~\E i \in DOMAIN d.columns : IsNumericColumn(d, d.columns[i])
       \/ ~\E i \in DOMAIN d.columns : IsObjectColumn(d, d.columns[i])

run_basic_profiling(d) ==
    IF IsEmpty(d) THEN [type |-> "str", shape |-> <<0, 0>>]
    ELSE [type |-> "dict", shape |-> <<Len(d.data), Len(d.columns)>>]

\* the Run Analysis button of tab_data_upload_analysis: the session states
\* its handler can leave.  An exception of the profiling or of
\* simulate_sql_analysis is caught and only clears data_analysis_done.
RunAnalysis(ss) ==
    LET d == ss["current_data"]
        config_ == ss["dq_rules_config"].cfg
        ss1 == Assign(ss, "profiling_results", run_basic_profiling(d))
    IN  IF d = NoData THEN {ss}
        ELSE IF profiling_raises(d)
        THEN {Assign(ss, "data_analysis_done", PyBool(FALSE))}
        ELSE {IF r.status = "raised"
              THEN Assign(ss1, "data_analysis_done", PyBool(FALSE))
              ELSE [k \in DOMAIN ss1 \cup {"dama_results", "mock_sql", "data_trust_score",
                                            "data_analysis_issues", "data_analysis_done"} |->
                       CASE k = "dama_results" -> DamaResults(r.dama_results)
                         [] k = "mock_sql" -> MockSql(r.trust_score)
                         [] k = "data_trust_score" ->
                               IF valid_scores(r.dama_results) = <<>> THEN PyInt(0)
                               ELSE PyFloat(r.trust_score)
                         [] k = "data_analysis_issues" -> IssuesDict(r.issues_summary)
                         [] k = "data_analysis_done" -> PyBool(TRUE)
                         [] OTHER -> ss1[k]]
              : r \in simulate_sql_analysis(d, config_)}

\* a dataset store that clears the flag and leaves the results of the
\* earlier analysis in place
LoadDataset_KeepsResults(ss, d) ==
    [k \in DOMAIN ss \cup {"current_data", "data_analysis_done"} |->
        CASE k = "current_data" -> d
          [] k = "data_analysis_done" -> PyBool(FALSE)
          [] OTHER -> ss[k]]

\* 'if df is not None:' after the upload section: the new dataset is stored
\* and the analysis keys are reset
LoadDataset(ss, d) ==
    [k \in DOMAIN ss \cup {"current_data", "data_analysis_done", "dama_results",
                            "mock_sql", "data_trust_score",
                            "profiling_results", "data_analysis_issues"} |->
        CASE k = "current_data" -> d
          [] k = "data_analysis_done" -> PyBool(FALSE)
          [] k = "dama_results" -> DamaResults(EmptyDict)
          [] k = "mock_sql" -> NotRunSql
          [] k = "data_trust_score" -> PyInt(0)
          [] k = "profiling_results" -> PyNone
          [] k = "data_analysis_issues" -> IssuesDict({})
          [] OTHER -> ss[k]]

\* tab_data_upload_analysis: a new dataset resets the analysis keys and
\* reruns; otherwise the rule configuration section rewrites
\* completeness_cols and uniqueness_col from its widgets, and Run Analysis
\* then works on the rewritten configuration.  Reading
\* st.session_state.current_data raises when the key is missing, and the
\* tab ends there.  The result is the set of outcomes [ss, rerun].
DataTab(ss) ==
    IF click = "load_data"
    THEN {[ss |-> LoadDataset(ss, AppDatasets[arg]), rerun |-> TRUE]}
    ELSE IF "current_data" \notin DOMAIN ss \/ "dq_rules_config" \notin DOMAIN ss
    THEN {[ss |-> ss, rerun |-> FALSE]}
    ELSE LET dq_config == ss["dq_rules_config"].cfg
             current_columns == ss["current_data"].columns
             InColumns(col) == \E i \in DOMAIN current_columns : current_columns[i] = col
             filtered_completeness_default ==
                 SelectSeq(dq_config.completeness_cols, InColumns)
             new_config ==
                 [dq_config EXCEPT
                     !.completeness_cols =
                         IF click = "select_columns"
                         THEN ColumnPicks(current_columns)[arg]
                         ELSE filtered_completeness_default,
                     !.uniqueness_col =
                         IF click = "select_uniqueness"
                         THEN UniquenessPicks(current_columns)[arg]
                         ELSE IF InColumns(dq_config.uniqueness_col) THEN @ ELSE None]
             configured == Assign(ss, "dq_rules_config", PyDict(new_config))
         IN  IF click = "run_analysis"
             THEN {[ss |-> a, rerun |-> FALSE] : a \in RunAnalysis(configured)}
             ELSE {[ss |-> configured, rerun |-> FALSE]}

\* tab_data_governance, RACI part: a missing or non-table value becomes the
\* default table; a valid edit replaces the table
GovernanceTab(ss) ==
    LET ss1 == IF "raci_df_json" \notin DOMAIN ss \/ ss["raci_df_json"].type # "DataFrame"
               THEN Assign(ss, "raci_df_json", default_raci)
               ELSE ss
    IN  IF click = "edit_raci"
        THEN Assign(ss1, "raci_df_json", RaciEdits[arg])
        ELSE ss1

\* tab_maturity_assessment: Save Current adds the current scores to the
\* history under the current time and reruns; the slider writes the score.
\* Sorting history keys that mix zone-aware and naive timestamps raises, and
\* so does reading st.session_state.maturity_scores when the key is
\* missing: the tab ends there.  Evidence goes with the scores.
current_ts == Timestamp(APP_TIMEZONE # None, clock, arg)

SortRaises(ss) ==
    /\ "maturity_assessments_history" \in DOMAIN ss
    /\ \E a, b \in DOMAIN ss["maturity_assessments_history"].items : a.aware # b.aware

\* ts.strftime('%Y-%m-%d %H:%M:%S'): the second of the timestamp, without
\* its microseconds and without its zone
strftime(ts) == ts.t

\* the options of the history selectbox: "Current Assessment", or the
\* text of a second
CurrentAssessment == [type |-> "str", current |-> TRUE, t |-> 0]
TimestampText(t) == [type |-> "str", current |-> FALSE, t |-> t]

\* pd.Timestamp(selected_ts_str): the naive timestamp of that second
pd_Timestamp(text) == Timestamp(FALSE, text.t, 0)

\* st.session_state.get('maturity_assessments_history', {})
history_of(ss) ==
    IF "maturity_assessments_history" \in DOMAIN ss
    THEN ss["maturity_assessments_history"].items
    ELSE NoItems

display_timestamps(ss) ==
    {CurrentAssessment} \cup {TimestampText(strftime(ts)) : ts \in DOMAIN history_of(ss)}

\* the value st.selectbox(..., key="maturity_history_select") returns: the
\* option the user has just picked, else the option the widget holds from
\* the run before when it is still offered, else the first option
selected_ts_str(ss) ==
    IF click = "select_history" /\ TimestampText(arg) \in display_timestamps(ss)
    THEN TimestampText(arg)
    ELSE IF /\ "maturity_history_select" \in DOMAIN ss
            /\ ss["maturity_history_select"] \in display_timestamps(ss)
    THEN ss["maturity_history_select"]
    ELSE CurrentAssessment

\* the Delete Sel. button: the selected text is turned back into a
\* timestamp and the entry under that key, if there is one, is removed.  A
\* zone-aware key, or a key with microseconds, is no such key.
DeleteSelected(ss, sel) ==
    LET history == history_of(ss)
        selected_ts_to_delete == pd_Timestamp(sel)
    IN  IF selected_ts_to_delete \in DOMAIN history
        THEN [found |-> TRUE,
              ss |-> Assign(ss, "maturity_assessments_history",
                            HistoryDict([ts \in DOMAIN history \ {selected_ts_to_delete} |->
                                            history[ts]]))]
        ELSE [found |-> FALSE, ss |-> ss]

\* tab_maturity_assessment, in the order of the code: the history
\* selectbox; Save Current, which adds the current scores to the history
\* under the current time and reruns; Delete Sel., which reruns when it
\* has removed an entry; the sliders, which write the score unless a past
\* assessment is being viewed.  When the sort fails the selectbox is not
\* rendered and its widget state is discarded at the end of the run.
MaturityTab(ss) ==
    IF SortRaises(ss)
    THEN [ss |-> [k \in DOMAIN ss \ {"maturity_history_select"} |-> ss[k]], rerun |-> FALSE]
    ELSE LET sel == selected_ts_str(ss)
             ss1 == Assign(ss, "maturity_history_select", sel)
             history == history_of(ss)
             deleted == DeleteSelected(ss1, sel)
             viewing_current == sel.current \/ pd_Timestamp(sel) \notin DOMAIN history
         IN  IF click = "save_current"
             THEN IF "maturity_scores" \notin DOMAIN ss1
                  THEN [ss |-> ss1, rerun |-> FALSE]
                  ELSE [ss |-> Assign(ss1, "maturity_assessments_history",
                                      HistoryDict([ts \in DOMAIN history \cup {current_ts} |->
                                                      IF ts = current_ts
                                                      THEN Assessment(ss1["maturity_scores"].v)
                                                      ELSE history[ts]])),
                        rerun |-> TRUE]
             ELSE IF click = "delete_selected" /\ ~sel.current /\ deleted.found
             THEN [ss |-> deleted.ss, rerun |-> TRUE]
             ELSE IF "maturity_scores" \notin DOMAIN ss1
             THEN [ss |-> ss1, rerun |-> FALSE]
             ELSE IF click = "set_score" /\ viewing_current
             THEN [ss |-> Assign(ss1, "maturity_scores", ScoresDict(arg)), rerun |-> FALSE]
             ELSE [ss |-> ss1, rerun |-> FALSE]

\* f"roadmap_df_{category.replace(' ','_')}"
roadmap_key(category) ==
    IF category = "Quick Wins (0-3 Months)" THEN "roadmap_df_Quick_Wins_(0-3_Months)"
    ELSE "roadmap_df_Mid-Term_(3-12_Months)"

\* the tables the user can leave in the editor of the first category
RoadmapEdits ==
    << DataFrame(None, RangeIndex(1), <<"ID", "Status">>, << <<"QW1", "In Progress">> >>),
       DataFrame(None, RangeIndex(2), <<"ID", "Status">>,
                 << <<"QW1", "Completed">>, <<"QW2", "Not Started">> >>) >>

\* tab_roadmap_builder: reading st.session_state.roadmap_data raises when
\* the key is missing and the tab ends there; each category's table lives
\* under its own roadmap_df_ key, made from default_roadmap_items when the
\* key holds no table; an edit replaces the table under that key
RoadmapTab(ss) ==
    IF "roadmap_data" \notin DOMAIN ss THEN ss
    ELSE [k \in DOMAIN ss \cup {roadmap_key(c) : c \in mock_roadmap_categories} |->
             IF \E c \in mock_roadmap_categories : k = roadmap_key(c)
             THEN LET category == CHOOSE c \in mock_roadmap_categories : k = roadmap_key(c)
                  IN  IF click = "edit_roadmap" /\ category = "Quick Wins (0-3 Months)"
                      THEN RoadmapEdits[arg]
                      ELSE IF k \in DOMAIN ss /\ ss[k].type = "DataFrame" THEN ss[k]
                      ELSE DataFrameOfRecords(default_roadmap_items[category])
             ELSE ss[k]]

\* the tabs after the landing page, in the order of TABS; st.rerun() ends
\* the run.  The input that started the run is consumed.
Tabs ==
    /\ pc = "tabs"
    /\ \E d \in DataTab(session_state) :
       LET g == GovernanceTab(d.ss)
           m == MaturityTab(g)
       IN  IF d.rerun
           THEN /\ session_state' = d.ss
                /\ pc' = "rerun"
           ELSE IF m.rerun
           THEN /\ session_state' = m.ss
                /\ pc' = "rerun"
           ELSE /\ session_state' = RoadmapTab(m.ss)
                /\ pc' = "idle"
    /\ clock' = IF click = "save_current" THEN clock + 1 ELSE clock
    /\ click' = "none"
    /\ arg' = 0
    /\ UNCHANGED <<state_file, ret, warnings, inputs, logo_uploader, saved_state>>
    /\ UNCHANGED <<APP_TIMEZONE, df, config, checks, sim, spc>>

Next ==
    \/ \E c \in Clicks :
          /\ c[1] # "none" => inputs < MaxInputs
          /\ c[1] = "save_current" => clock <= MaxClock
          /\ c[1] = "clear_logo_uploader" => logo_uploader
          /\ BeginRun(c[1], c[2])
    \/ LandingPageButtons
    \/ LandingPageLogo
    \/ Tabs

Spec == Init /\ [][Next]_vars

\* sessions spent in the Data Upload & Analysis tab: datasets (the first
\* and the mock sales data), the completeness and uniqueness selections,
\* Run Analysis, and the Save State and Load State buttons.  The session
\* starts without a state file or with the snapshot of the defaults.  Run
\* Analysis is disabled while no dataset is loaded.
MaxAnalysisInputs == 5

\* a snapshot file of well-formed values: one RACI row, one roadmap item,
\* one past assessment
WellFormedFile ==
    JsonFile(FileObject(
        PyStr(to_json_split(DataFrame(None, RangeIndex(1), <<"Activity", "CDO">>,
                                      << <<"Set Data Access Policy", "R">> >>))),
        RoadmapDict([c \in {"Quick Wins (0-3 Months)"} |->
                        [kind |-> "records", columns |-> <<"ID", "Status">>,
                         data |-> << <<"QW7", "Completed">> >>]]),
        HistoryDict(FileHistories[1]),
        Absent))

AnalysisFiles == {AbsentFile, WellFormedFile}

InitAnalysis ==
    /\ APP_TIMEZONE \in {"Europe/London", None}
    /\ df = NoData
    /\ config = default_dq_rules_config
    /\ checks = NoResult
    /\ sim = NoSim
    /\ spc = "off"
    /\ pc = "start" /\ click = "none" /\ arg = 0
    /\ session_state = NoItems
    /\ state_file \in AnalysisFiles
    /\ ret = NoCall
    /\ warnings = {}
    /\ clock = 1
    /\ inputs = 0
    /\ logo_uploader = FALSE
    /\ saved_state = NoItems

AnalysisClicks ==
    ({"none", "save", "load", "run_analysis"} \X {0})
    \cup ({"load_data"} \X {1, 3})
    \cup ({"select_columns"} \X (1..3))
    \cup ({"select_uniqueness"} \X (1..2))

NextAnalysis ==
    \/ \E c \in AnalysisClicks :
          /\ c[1] # "none" => inputs < MaxAnalysisInputs
          /\ c[1] = "run_analysis" =>
                /\ "current_data" \in DOMAIN session_state
                /\ session_state["current_data"] # NoData
          /\ BeginRun(c[1], c[2])
    \/ LandingPageButtons
    \/ LandingPageLogo
    \/ Tabs

SpecAnalysis == InitAnalysis /\ [][NextAnalysis]_vars

\* sessions spent in the Roadmap Builder: edits of the first category's
\* table, and the Save State and Load State buttons
RoadmapClicks ==
    ({"none", "save", "load"} \X {0})
    \cup ({"edit_roadmap"} \X DOMAIN RoadmapEdits)

NextRoadmap ==
    \/ \E c \in RoadmapClicks :
          /\ c[1] # "none" => inputs < MaxInputs
          /\ BeginRun(c[1], c[2])
    \/ LandingPageButtons
    \/ LandingPageLogo
    \/ Tabs

SpecRoadmap == Init /\ [][NextRoadmap]_vars

\* sessions spent in the Maturity Assessment tab: the slider, Save Current,
\* the history selectbox (an option it offers), Delete Sel. (enabled while
\* a past assessment is selected), and the Save State and Load State
\* buttons
MaturityClicks ==
    ({"none", "save", "load", "delete_selected"} \X {0})
    \cup ({"save_current"} \X {0, 1})
    \cup ({"set_score"} \X {3})
    \cup ({"select_history"} \X (0..MaxClock))

NextMaturity ==
    \/ \E c \in MaturityClicks :
          /\ c[1] # "none" => inputs < MaxInputs
          /\ c[1] = "save_current" => clock <= MaxClock
          /\ c[1] = "select_history" =>
                TimestampText(c[2]) \in display_timestamps(session_state)
          /\ c[1] = "delete_selected" =>
                /\ "maturity_history_select" \in DOMAIN session_state
                /\ ~session_state["maturity_history_select"].current
          /\ BeginRun(c[1], c[2])
    \/ LandingPageButtons
    \/ LandingPageLogo
    \/ Tabs

SpecMaturity == Init /\ [][NextMaturity]_vars

(***************************************************************************)
(* Properties of saving and loading (under Spec).                          *)
(***************************************************************************)
\* the state is the one load_app_state_json has just left: after the
\* startup load, or after the Load State button
AfterLoad ==
    /\ ret.op = "load"
    /\ pc = "landing" \/ (click = "load" /\ pc \in {"logo", "rerun"})

\* the state is the one save_app_state_json has just left
AfterSave == ret.op = "save" /\ pc = "logo"

\* a successful load came after an earlier input of the session
LoadedByButton == AfterLoad /\ click = "load" /\ inputs >= 2

HasActivity(text) == \E i \in DOMAIN text.columns : text.columns[i] = "Activity"

ActivityValues(text) ==
    LET c == CHOOSE i \in DOMAIN text.columns : text.columns[i] = "Activity"
    IN  [r \in DOMAIN text.data |-> text.data[r][c]]

HasDuplicates(seq) == \E i, j \in DOMAIN seq : i # j /\ seq[i] = seq[j]

\* the file is a JSON object whose key holds a value of the given type
FileHas(key, type) ==
    /\ state_file.kind = "json object"
    /\ key \in DOMAIN state_file.obj
    /\ state_file.obj[key].type = type

\* after is equivalent to before, for the value of a persisted key
Equivalent(key, before, after) ==
    CASE key = "raci_df_json" ->
            /\ after.type = "DataFrame"
            /\ after.index_name = "Activity"
            /\ after.index = before.index
            /\ after.columns = before.columns
            /\ after.data = before.data
      [] key = "roadmap_data" ->
            /\ after.type = "dict"
            /\ DOMAIN after.cats = DOMAIN before.cats
            /\ \A c \in DOMAIN before.cats :
                  /\ after.cats[c].type = "DataFrame"
                  /\ after.cats[c].columns = before.cats[c].columns
                  /\ after.cats[c].data = before.cats[c].data
      [] key = "maturity_assessments_history" ->
            /\ after.type = "dict"
            /\ DOMAIN after.items = DOMAIN before.items
            /\ \A ts \in DOMAIN before.items : after.items[ts] = before.items[ts]
      [] OTHER -> after = before

\* C1: after a save and a later load of the file it wrote, every persisted
\* key that was present and representable at the save holds a value
\* equivalent to its value at the save.
RoundTrip ==
    (AfterLoad /\ saved_state # NoItems) =>
        \A k \in keys_to_persist \cap DOMAIN saved_state :
            saved_state[k].type # "bytes" =>
                /\ k \in DOMAIN session_state
                /\ Equivalent(k, saved_state[k], session_state[k])

\* C4: when the file is missing or is not a snapshot that can be parsed,
\* load_app_state_json returns False and every built-in default key holds
\* its default value.
UnreadableFileGivesDefaults ==
    (AfterLoad /\ state_file.kind # "json object") =>
        /\ ret.val = FALSE
        /\ \A k \in DOMAIN defaults :
              k \in DOMAIN session_state /\ session_state[k] = defaults[k]

\* C4, the case: the Load State button on a cut-off file, pressed after an
\* earlier input, has reset the state
UnreadableFileWitness ==
    /\ LoadedByButton
    /\ state_file.kind = "not json"
    /\ ret.val = FALSE
    /\ session_state["uploaded_logo_bytes"] = PyNone

\* a leaf json cannot encode sits inside the value
HasUnencodableLeaf(value) ==
    /\ value.type = "dict"
    /\ "cfg" \in DOMAIN value
    /\ \/ \E i \in DOMAIN value.cfg.completeness_cols :
             value.cfg.completeness_cols[i] \in DatetimeLabels
       \/ value.cfg.uniqueness_col \in DatetimeLabels

\* C6: a persisted key whose value is not representable, at top level or in
\* a nested leaf, is left out of the snapshot; every other persisted key is
\* written and the save reports success.
UnrepresentableKeyOmitted ==
    AfterSave =>
        /\ ret.val = TRUE
        /\ state_file.kind = "json object"
        /\ DOMAIN state_file.obj =
              {k \in keys_to_persist \cap DOMAIN session_state :
                  /\ session_state[k].type # "bytes"
                  /\ ~HasUnencodableLeaf(session_state[k])}

\* C7: a snapshot whose RACI table has no 'Activity' column loads as the
\* default RACI table, with a warning, and the load returns True.
RaciWithoutActivityGivesDefault ==
    (/\ AfterLoad
     /\ FileHas("raci_df_json", "str")
     /\ state_file.obj["raci_df_json"].text.parses
     /\ ~HasActivity(state_file.obj["raci_df_json"].text)) =>
        /\ ret.val = TRUE
        /\ session_state["raci_df_json"] = set_index(default_raci_data, "Activity")
        /\ "Loaded RACI data missing 'Activity' column" \in warnings

\* C7, the case: the Load State button read such a snapshot after an earlier
\* input
RaciWithoutActivityWitness ==
    /\ LoadedByButton
    /\ FileHas("raci_df_json", "str")
    /\ state_file.obj["raci_df_json"].text.parses
    /\ ~HasActivity(state_file.obj["raci_df_json"].text)
    /\ session_state["raci_df_json"].index_name = "Activity"
    /\ ret.val = TRUE

\* C8: a snapshot whose RACI table has duplicate 'Activity' values loads as
\* the default RACI table, with a warning; after a load the live RACI table
\* never has a non-unique index.
DuplicateActivityGivesDefault ==
    AfterLoad =>
        /\ (/\ FileHas("raci_df_json", "str")
            /\ state_file.obj["raci_df_json"].text.parses
            /\ HasActivity(state_file.obj["raci_df_json"].text)
            /\ HasDuplicates(ActivityValues(state_file.obj["raci_df_json"].text))) =>
               /\ session_state["raci_df_json"] = set_index(default_raci_data, "Activity")
               /\ warnings # {}
        /\ ("raci_df_json" \in DOMAIN session_state
            /\ session_state["raci_df_json"].type = "DataFrame") =>
               ~HasDuplicates(session_state["raci_df_json"].index)

Malformed(key, value) ==
    CASE key \in {"raci_df_json"} /\ value.type = "str" ->
            ~value.text.parses \/ ~HasActivity(value.text)
      [] key = "extra_df_json" /\ value.type = "str" -> ~value.text.parses
      [] key = "roadmap_data" /\ value.type = "dict" ->
            \E c \in DOMAIN value.cats : value.cats[c].kind # "records"
      [] key = "maturity_assessments_history" /\ value.type = "dict" ->
            \E s \in DOMAIN value.items : s.kind # "iso"
      [] OTHER -> FALSE

\* what a well-formed value under the key is rebuilt to
Rebuilt(key, value) ==
    CASE key = "raci_df_json" /\ value.type = "str" ->
            set_index(DataFrame(None, value.text.index, value.text.columns, value.text.data),
                      "Activity")
      [] key = "extra_df_json" /\ value.type = "str" ->
            DataFrame(None, value.text.index, value.text.columns, value.text.data)
      [] key = "roadmap_data" /\ value.type = "dict" ->
            RoadmapDict([c \in DOMAIN value.cats |->
                            DataFrame(None, RangeIndex(Len(value.cats[c].data)),
                                      value.cats[c].columns, value.cats[c].data)])
      [] key = "maturity_assessments_history" /\ value.type = "dict" ->
            HistoryDict([ts \in {Timestamp(s.aware, s.t, s.us) : s \in DOMAIN value.items} |->
                            value.items[CHOOSE s \in DOMAIN value.items :
                                           Timestamp(s.aware, s.t, s.us) = ts]])
      [] OTHER -> value

\* the step is a call of load_app_state_json
LoadStep ==
    \/ pc' = "landing" /\ ret'.op = "load"
    \/ pc = "landing" /\ click = "load"

\* C10: for a snapshot that is a JSON object, whatever values are malformed,
\* the load returns True, every key with a well-formed value is assigned
\* its rebuilt value, and the keys the snapshot does not hold keep their
\* live values (no reset).
MalformedValueIsIsolated ==
    [][(LoadStep /\ state_file.kind = "json object") =>
          /\ ret'.val = TRUE
          /\ \A k \in DOMAIN state_file.obj :
                ~Malformed(k, state_file.obj[k]) =>
                    /\ k \in DOMAIN session_state'
                    /\ session_state'[k] = Rebuilt(k, state_file.obj[k])
          /\ \A k \in DOMAIN session_state \ DOMAIN state_file.obj :
                k \in DOMAIN session_state' /\ session_state'[k] = session_state[k]]_vars

\* C10, the case: the Load State button read a snapshot with a malformed
\* RACI text, malformed roadmap records and a malformed extra table text,
\* and the live state holds the snapshot's rule configuration and changes
\* made earlier in the session
MalformedValueWitness ==
    /\ LoadedByButton
    /\ FileHas("raci_df_json", "str") /\ ~state_file.obj["raci_df_json"].text.parses
    /\ FileHas("roadmap_data", "dict")
    /\ Malformed("roadmap_data", state_file.obj["roadmap_data"])
    /\ FileHas("extra_df_json", "str") /\ ~state_file.obj["extra_df_json"].text.parses
    /\ ret.val = TRUE
    /\ session_state["dq_rules_config"] = state_file.obj["dq_rules_config"]
    /\ "current_data" \in DOMAIN session_state

\* the value the load gives the key from the snapshot, if it gives one
FromSnapshot(key, value) ==
    /\ state_file.kind = "json object"
    /\ key \in DOMAIN state_file.obj
    /\ \/ ~Malformed(key, state_file.obj[key]) /\ value = Rebuilt(key, state_file.obj[key])
       \/ key = "maturity_assessments_history" /\ value.type = "dict"

\* C11: a call of load_app_state_json, whatever it returns, leaves no value
\* of the live state standing: afterwards every key of the live state holds
\* the value loaded from the snapshot or its built-in default.
LoadDiscardsLiveState ==
    [][LoadStep =>
          \A k \in DOMAIN session_state' :
              \/ FromSnapshot(k, session_state'[k])
              \/ k \in DOMAIN defaults /\ session_state'[k] = defaults[k]]_vars

\* the step is the top of a script run that is not the first of the session
LaterRunBegins == pc \in {"idle", "rerun"} /\ pc' = "landing"

\* C18: the startup load runs at most once in a session: once the first
\* script run is over 'state_initialized' is in the live state, and the top
\* of a later run neither reads the snapshot file nor changes a live value.
StartupLoadRunsOnce ==
    [][LaterRunBegins =>
          /\ "state_initialized" \in DOMAIN session_state
          /\ ret'.op # "load"
          /\ session_state' = session_state]_vars

\* C19: once the session has started, whether the startup load succeeded
\* or failed, every key of the built-in defaults is in the live state, the
\* keys the snapshot file does not hold included.
DefaultKeysPresentAfterStartup ==
    pc # "start" => DOMAIN defaults \subseteq DOMAIN session_state

\* the step is a call of save_app_state_json that returns False
FailedSaveStep ==
    /\ pc = "landing" /\ click = "save"
    /\ ret'.op = "save" /\ ret'.val = FALSE

\* C20: a save that fails leaves the persisted snapshot as it was: a load
\* of the file after the failed save gives the live state, and returns the
\* value, that a load of the file before it gives.
FailedSaveKeepsSnapshot ==
    [][FailedSaveStep =>
          LET before == load_app_state_json(session_state, state_file)
              after == load_app_state_json(session_state, state_file')
          IN  after.ss = before.ss /\ after.ret = before.ret]_vars


(***************************************************************************)
(* The issues summary of the scorer (under SpecScorer).                    *)
(***************************************************************************)
\* C25: every dimension whose numeric result is below 100 has an entry in
\* the issues summary run_mock_dama_checks returns.  Timeliness and
\* Validity divide by the number of rows but report an issue only for
\* parsed dates that are too old and for numbers that fail the condition.
LowScoreHasIssueEntry ==
    Checked =>
        \A n \in Range(Dimensions) :
            (checks.results[n].t = "num" /\ checks.results[n].v < 1000)
                => n \in checks.issues_summary


(***************************************************************************)
(* Properties of the Data Upload & Analysis tab (under SpecAnalysis).      *)
(***************************************************************************)
\* the step of the tabs in which a new dataset is stored
DatasetLoadStep == pc = "tabs" /\ click = "load_data"

\* C24: the step that stores a new dataset resets the analysis state:
\* data_analysis_done is False, dama_results and data_analysis_issues are
\* empty, data_trust_score is 0, profiling_results is None and mock_sql is
\* the 'not run' text; the run ends there and the script reruns.
NewDatasetResetsAnalysis ==
    [][DatasetLoadStep =>
          /\ {"current_data", "data_analysis_done", "dama_results", "data_analysis_issues",
              "data_trust_score", "profiling_results", "mock_sql"}
                 \subseteq DOMAIN session_state'
          /\ session_state'["current_data"] = AppDatasets[arg]
          /\ session_state'["data_analysis_done"] = PyBool(FALSE)
          /\ session_state'["dama_results"] = DamaResults(EmptyDict)
          /\ session_state'["data_analysis_issues"] = IssuesDict({})
          /\ session_state'["data_trust_score"] = PyInt(0)
          /\ session_state'["profiling_results"] = PyNone
          /\ session_state'["mock_sql"] = NotRunSql
          /\ pc' = "rerun"]_vars

\* a dataset is being stored in a session that holds the results of an
\* analysis of another dataset
NewDatasetWitness ==
    /\ DatasetLoadStep
    /\ "data_analysis_done" \in DOMAIN session_state
    /\ session_state["data_analysis_done"] = PyBool(TRUE)
    /\ session_state["dama_results"] # DamaResults(EmptyDict)
    /\ session_state["profiling_results"] # PyNone
    /\ session_state["current_data"] # AppDatasets[arg]


\* C23: whenever data_analysis_done is true, a dataset is loaded and the
\* stored dama_results and data_trust_score are what simulate_sql_analysis
\* returns for the current dataset and the current dq_rules_config.
StoredAnalysisIsCurrent ==
    ("data_analysis_done" \in DOMAIN session_state
        /\ session_state["data_analysis_done"] = PyBool(TRUE))
    => /\ {"current_data", "dq_rules_config", "dama_results", "data_trust_score"}
             \subseteq DOMAIN session_state
       /\ session_state["current_data"] # NoData
       /\ \E r \in simulate_sql_analysis(session_state["current_data"],
                                         session_state["dq_rules_config"].cfg) :
             /\ r.status = "returned"
             /\ session_state["dama_results"] = DamaResults(r.dama_results)
             /\ session_state["data_trust_score"].v = r.trust_score


\* C21: after a save and a load of the file it wrote, run_mock_dama_checks
\* on the loaded dataset returns the same five dimension results with the
\* dq_rules_config of the session as with the dq_rules_config held at the
\* save.
ScorerUnchangedByRoundTrip ==
    (/\ AfterLoad /\ ret.val
     /\ saved_state # NoItems
     /\ "dq_rules_config" \in DOMAIN saved_state
     /\ {"dq_rules_config", "current_data"} \subseteq DOMAIN session_state
     /\ session_state["current_data"] # NoData)
    => run_mock_dama_checks(session_state["current_data"],
                            session_state["dq_rules_config"].cfg).results
       = run_mock_dama_checks(session_state["current_data"],
                              saved_state["dq_rules_config"].cfg).results


(***************************************************************************)
(* Properties of the Roadmap Builder (under SpecRoadmap).                  *)
(***************************************************************************)
\* C22: the tables of the Roadmap Builder are what save persists and what
\* load restores: the file a save has written holds, for each category, the
\* rows of the builder's table, and after a load of that file the
\* builder's table of each category is the table it was at the save.
RoadmapEditsPersist ==
    /\ (AfterSave /\ ret.val) =>
          \A c \in mock_roadmap_categories :
              roadmap_key(c) \in DOMAIN session_state =>
                  /\ "roadmap_data" \in DOMAIN state_file.obj
                  /\ c \in DOMAIN state_file.obj["roadmap_data"].cats
                  /\ state_file.obj["roadmap_data"].cats[c]
                        = to_dict_records(session_state[roadmap_key(c)])
    /\ (AfterLoad /\ ret.val /\ saved_state # NoItems) =>
          \A c \in mock_roadmap_categories :
              roadmap_key(c) \in DOMAIN saved_state =>
                  /\ roadmap_key(c) \in DOMAIN session_state
                  /\ session_state[roadmap_key(c)] = saved_state[roadmap_key(c)]


(***************************************************************************)
(* Properties of the assessment history (under SpecMaturity).              *)
(***************************************************************************)
\* the step of the tabs in which Delete Sel. is handled while the selectbox
\* holds the text of an entry of the history
DeleteStep ==
    /\ pc = "tabs" /\ click = "delete_selected"
    /\ ~SortRaises(session_state)
    /\ ~selected_ts_str(session_state).current

\* the entries the selected text identifies
SelectedEntries ==
    {ts \in DOMAIN history_of(session_state) :
        strftime(ts) = selected_ts_str(session_state).t}

\* C26: Delete Sel. removes exactly the selected entry from
\* maturity_assessments_history and leaves every other entry unchanged.
DeleteRemovesSelected ==
    [][DeleteStep =>
          /\ "maturity_assessments_history" \in DOMAIN session_state'
          /\ DOMAIN history_of(session_state')
                = DOMAIN history_of(session_state) \ SelectedEntries
          /\ \A ts \in DOMAIN history_of(session_state') :
                history_of(session_state')[ts] = history_of(session_state)[ts]]_vars

\* the entries Save Current has added (the entries of the snapshot files
\* carry an earlier time)
SavedByUser(ss) == {ts \in DOMAIN history_of(ss) : ts.t >= 1}

\* C27: an assessment added by Save Current stays in the history, with its
\* scores and evidence, through every step of every run that is not the
\* run of a Delete Sel. or of a Load State click.
SavedAssessmentStays ==
    [][(click \notin {"delete_selected", "load"} /\ click' \notin {"delete_selected", "load"})
          => \A ts \in SavedByUser(session_state) :
                /\ ts \in DOMAIN history_of(session_state')
                /\ history_of(session_state')[ts] = history_of(session_state)[ts]]_vars

====
